---------------------------- MODULE Spec2Model ----------------------------
(***************************************************************************)
(* silinapse: the packed symmetric matrix (src/linalg/symmetric.rs) and    *)
(* the Boltzmann machine built on it (src/boltzmann.rs).                   *)
(*                                                                         *)
(* Numbers.  Weights, biases and unit values are small integers, which     *)
(* every Float type represents exactly, so the sums of the local field are *)
(* exact.  The quotient -field / temperature is kept in halves (exact for  *)
(* the temperatures 1 and 2) or is one of the IEEE specials a zero         *)
(* temperature produces.  exp is tabulated to three decimals (ExpTab), and *)
(* a uniform sample of [0,1) is a numerator u standing for u / UDen.       *)
(* Indices and sizes are usize, here UsizeBits wide: the arithmetic of     *)
(* zeros and of index wraps modulo 2^UsizeBits in a build without overflow *)
(* checks and panics in a build with them; both outcomes are steps.        *)
(*                                                                         *)
(* Specifications.  Spec: a matrix of side 0 .. MaxSide is written into    *)
(* and moved into a machine, which is ticked and written into.  FairSpec:  *)
(* Spec with a running call taking its next step.  ZerosSpec: the matrix   *)
(* alone, built with any side.  ColdSpec: Spec ticking at temperature 0.   *)
(* DepositSpec: values other than 0 and 1 written through values_mut.      *)
(* FairSamplerSpec: tick_one_random under a fair index sampler, called     *)
(* with exclusion lists of any shape.                                      *)
(***************************************************************************)
EXTENDS Integers, Sequences, FiniteSets, TLC

VARIABLES
    pc,           \* "matrix": the SymmetricMatrix is being populated;
                  \* "idle": it has been moved into a BoltzmannMachine;
                  \* "sampling": inside the while loop of tick_one_random;
                  \* "start": no matrix has been built yet (ZerosSpec);
                  \* "panic_index": the bounds check of the Vec has failed;
                  \* "panic_overflow": an arithmetic overflow check has
                  \* failed (builds with overflow checks);
                  \* "panic_biases": the assertion of with_biases has failed;
                  \* "panic_range": the assertion of Range::new has failed
    size,         \* SymmetricMatrix.size
    coeffs,       \* SymmetricMatrix.values, indexed from 0
    values,       \* BoltzmannMachine.values, indexed from 0
    biases,       \* BoltzmannMachine.biases, indexed from 0
    temperature,  \* tick_one_random: its argument temperature
    avoid,        \* tick_one_random: its argument avoid, a slice
    idx           \* tick_one_random: its local idx

vars == <<pc, size, coeffs, values, biases, temperature, avoid, idx>>

---------------------------------------------------------------------------
(* Bounds and input domains *)

MaxSide == 3      \* sides of the matrices built: 0 .. MaxSide
MaxUnits == 2     \* a machine is built from matrices of side <= MaxUnits
UDen == 3         \* uniform samples are 0/UDen .. (UDen-1)/UDen
UsizeBits == 6    \* usize is UsizeBits wide: 0 .. 2^UsizeBits - 1

Modulus == 2 ^ UsizeBits
UsizeMax == Modulus - 1

WeightVals == {-2, 0}      \* coefficients written into the matrix
BiasVals == {-1, 1}        \* entries of the bias vectors passed to with_biases
ValueVals == {0, 1}        \* entries written through values_mut
Temps == {1, 2}            \* temperatures passed to the tick functions

Units == 0 .. (Cardinality(DOMAIN biases) - 1)
USamples == 0 .. (UDen - 1)

---------------------------------------------------------------------------
(* SymmetricMatrix *)

\* zeros: n*(n+1)/2 in usize arithmetic.  A build with overflow checks
\* panics where ZerosOverflows(n); a build without them wraps, which is
\* the value PackedLen(n).
ZerosOverflows(n) == n + 1 > UsizeMax \/ n * (n + 1) > UsizeMax

PackedLen(n) == ((n * ((n + 1) % Modulus)) % Modulus) \div 2

zeros(n) == [k \in 0 .. (PackedLen(n) - 1) |-> 0]

\* order_tuple without its swap
order_tuple_as_given(t) == t

order_tuple(t) == IF t[1] < t[2] THEN t ELSE <<t[2], t[1]>>

\* index / index_mut: j*(j+1)/2 + i in usize arithmetic.  A build with
\* overflow checks panics where OffsetOverflows(i, j); a build without them
\* wraps, which is the value Offset(i, j).
OffsetOverflows(i, j) ==
    LET t == order_tuple(<<i, j>>)
    IN  \/ t[2] + 1 > UsizeMax
        \/ t[2] * (t[2] + 1) > UsizeMax
        \/ (t[2] * (t[2] + 1)) \div 2 + t[1] > UsizeMax

Offset(i, j) ==
    LET t == order_tuple(<<i, j>>)
    IN  (((t[2] * ((t[2] + 1) % Modulus)) % Modulus) \div 2 + t[1]) % Modulus

\* &self.values[k]: the read of matrix[(i, j)], for an offset within the Vec
Index(m, i, j) == m[Offset(i, j)]

\* index_mut followed by the assignment: matrix[(i, j)] = v
IndexSet(m, i, j, v) == [m EXCEPT ![Offset(i, j)] = v]

---------------------------------------------------------------------------
(* Float arithmetic of the update rule *)

Fin(h) == [kind |-> "fin", h |-> h]   \* the finite number h / 2
PInf == [kind |-> "pinf", h |-> 0]
NInf == [kind |-> "ninf", h |-> 0]
NaN == [kind |-> "nan", h |-> 0]

\* val / temperature, the negation forgotten
DivNotNegated(val, t) ==
    IF t = 0
    THEN IF val = 0 THEN NaN ELSE IF val < 0 THEN NInf ELSE PInf
    ELSE Fin((val * 2) \div t)

\* -val / temperature, for an integer val and a temperature of Temps
NegDiv(val, t) ==
    IF t = 0
    THEN IF val = 0 THEN NaN ELSE IF val < 0 THEN PInf ELSE NInf
    ELSE Fin(((0 - val) * 2) \div t)

\* 1000 * exp(h / 2) for h = -20 .. 20, rounded
ExpTab ==
    <<0, 0, 0, 0, 0, 1, 1, 2, 2, 4, 7, 11, 18, 30, 50, 82, 135, 223, 368, 607,
      1000,
      1649, 2718, 4482, 7389, 12182, 20086, 33115, 54598, 90017, 148413,
      244692, 403429, 665142, 1096633, 1808042, 2980958, 4914769, 8103084,
      13359727, 22026466>>

\* val.exp(), in thousandths.  Outside [-10, 10] the table saturates: there
\* the comparison with a sample of the grid is already decided.
Exp(x) ==
    CASE x.kind = "nan" -> NaN
      [] x.kind = "pinf" -> PInf
      [] x.kind = "ninf" -> Fin(0)
      [] OTHER ->
            LET h == IF x.h > 20 THEN 20 ELSE IF x.h < -20 THEN -20 ELSE x.h
            IN  Fin(ExpTab[h + 21])

\* the comparison the other way round: (one() + e).recip() < random::<F>()
RecipLtRandom(u, e) ==
    CASE e.kind = "nan" -> FALSE
      [] e.kind = "pinf" -> 0 < u
      [] OTHER -> UDen * 1000 < u * (1000 + e.h)

\* random::<F>() < (one() + e).recip(), for the sample u / UDen and e = Exp(..)
RandomLtRecip(u, e) ==
    CASE e.kind = "nan" -> FALSE               \* a comparison with NaN
      [] e.kind = "pinf" -> FALSE              \* u < 0
      [] OTHER -> u * (1000 + e.h) < UDen * 1000

---------------------------------------------------------------------------
(* BoltzmannMachine *)

\* the loop "for j in 0..n" leaving out the units of the exclusion list
RECURSIVE FieldLoopSkipAvoided(_, _, _, _, _, _)
FieldLoopSkipAvoided(b, m, vals, i, j, val) ==
    IF j >= Cardinality(DOMAIN vals)
    THEN val
    ELSE FieldLoopSkipAvoided(b, m, vals, i, j + 1,
                              IF i # j /\ \A k \in DOMAIN avoid : avoid[k] # j
                              THEN val + vals[j] * Index(m, i, j)
                              ELSE val)

\* the loop "for j in 0..n" without its test i != j
RECURSIVE FieldLoopWithSelf(_, _, _, _, _, _)
FieldLoopWithSelf(b, m, vals, i, j, val) ==
    IF j >= Cardinality(DOMAIN vals)
    THEN val
    ELSE FieldLoopWithSelf(b, m, vals, i, j + 1, val + vals[j] * Index(m, i, j))

\* the loop "for j in 0..n" of both tick functions, from column j, with the
\* accumulator val
RECURSIVE FieldLoop(_, _, _, _, _, _)
FieldLoop(b, m, vals, i, j, val) ==
    IF j >= Cardinality(DOMAIN vals)
    THEN val
    ELSE FieldLoop(b, m, vals, i, j + 1,
                   IF i # j THEN val + vals[j] * Index(m, i, j) ELSE val)

\* let mut val = self.biases[i]; for j in 0..n { .. }
LocalField(b, m, vals, i) == FieldLoop(b, m, vals, i, 0, b[i])

\* the update rule without its else branch: a rejected unit keeps its value
NewValueSetOnly(b, m, vals, i, t, u) ==
    IF RandomLtRecip(u, Exp(NegDiv(LocalField(b, m, vals, i), t)))
    THEN 1
    ELSE vals[i]

\* the value both tick functions store into values[i]
NewValue(b, m, vals, i, t, u) ==
    IF RandomLtRecip(u, Exp(NegDiv(LocalField(b, m, vals, i), t)))
    THEN 1
    ELSE 0

\* tick_all_sequential computing every unit from the values of before the
\* sweep
SweepLoopBuffered(b, m, vals, i, t, us) ==
    [k \in DOMAIN vals |-> NewValue(b, m, vals, k, t, us[k])]

\* the loop "for i in 0..n" of tick_all_sequential, from unit i; us[i] is
\* the sample drawn for unit i
RECURSIVE SweepLoop(_, _, _, _, _, _)
SweepLoop(b, m, vals, i, t, us) ==
    IF i >= Cardinality(DOMAIN vals)
    THEN vals
    ELSE SweepLoop(b, m, [vals EXCEPT ![i] = NewValue(b, m, vals, i, t, us[i])],
                   i + 1, t, us)

---------------------------------------------------------------------------
\* avoid.contains(&idx) with the test inverted
AvoidContainsNot(av, i) == \A k \in DOMAIN av : av[k] # i

\* avoid.contains(&idx) looking at the first entry of the slice only
AvoidContainsFirst(av, i) == av # <<>> /\ av[1] = i

\* avoid.contains(&idx)
AvoidContains(av, i) == \E k \in DOMAIN av : av[k] = i

---------------------------------------------------------------------------
(* Initial state: SymmetricMatrix::zeros(n) *)

Init ==
    /\ pc = "matrix"
    /\ size \in 0 .. MaxSide
    /\ coeffs = zeros(size)
    /\ values = <<>>
    /\ biases = <<>>
    /\ temperature = 0
    /\ avoid = <<>>
    /\ idx = 0

(* Before the first call of a program: no matrix has been built.           *)
ZInit ==
    /\ pc = "start"
    /\ size = 0
    /\ coeffs = <<>>
    /\ values = <<>>
    /\ biases = <<>>
    /\ temperature = 0
    /\ avoid = <<>>
    /\ idx = 0

(* SymmetricMatrix::zeros(n).  Where n*(n+1) overflows usize the build     *)
(* decides: with overflow checks the arithmetic panics, without them the   *)
(* product wraps and the Vec gets the wrapped length.  The allocation      *)
(* itself is taken to succeed.                                             *)
Zeros(n) ==
    /\ pc = "start"
    /\ \/ /\ ZerosOverflows(n)
          /\ pc' = "panic_overflow"
          /\ UNCHANGED <<size, coeffs>>
       \/ /\ size' = n
          /\ coeffs' = zeros(n)
          /\ pc' = "matrix"
    /\ UNCHANGED <<values, biases, temperature, avoid, idx>>

(* matrix[(i, j)] = v.  Where the offset overflows usize the build decides: *)
(* with overflow checks the arithmetic panics, without them the offset     *)
(* wraps.  The Vec's bounds check panics for an offset beyond its length.  *)
IndexMutWrite(i, j, v) ==
    /\ pc = "matrix"
    /\ \/ /\ OffsetOverflows(i, j)
          /\ pc' = "panic_overflow"
          /\ coeffs' = coeffs
       \/ /\ Offset(i, j) < Cardinality(DOMAIN coeffs)
          /\ coeffs' = IndexSet(coeffs, i, j, v)
          /\ pc' = pc
       \/ /\ Offset(i, j) >= Cardinality(DOMAIN coeffs)
          /\ pc' = "panic_index"
          /\ coeffs' = coeffs
    /\ UNCHANGED <<size, values, biases, temperature, avoid, idx>>

\* new leaving every unit at 0
NewAllZero ==
    /\ pc = "matrix"
    /\ size <= MaxUnits
    /\ values' = [i \in 0 .. (size - 1) |-> 0]
    /\ biases' = [i \in 0 .. (size - 1) |-> 0]
    /\ pc' = "idle"
    /\ UNCHANGED <<size, coeffs, temperature, avoid, idx>>

\* BoltzmannMachine::new(coeffs)
New ==
    /\ pc = "matrix"
    /\ size <= MaxUnits
    /\ values' = [i \in 0 .. (size - 1) |-> 1]
    /\ biases' = [i \in 0 .. (size - 1) |-> 0]
    /\ pc' = "idle"
    /\ UNCHANGED <<size, coeffs, temperature, avoid, idx>>

\* with_biases without its assertion
WithBiasesUnchecked(b) ==
    /\ pc = "matrix"
    /\ size <= MaxUnits
    /\ values' = [i \in 0 .. (size - 1) |-> 1]
    /\ biases' = b
    /\ pc' = "idle"
    /\ UNCHANGED <<size, coeffs, temperature, avoid, idx>>

\* BoltzmannMachine::with_biases(coeffs, b)
WithBiases(b) ==
    /\ pc = "matrix"
    /\ size <= MaxUnits
    /\ IF Cardinality(DOMAIN b) = size
       THEN /\ values' = [i \in 0 .. (size - 1) |-> 1]
            /\ biases' = b
            /\ pc' = "idle"
       ELSE /\ pc' = "panic_biases"
            /\ UNCHANGED <<values, biases>>
    /\ UNCHANGED <<size, coeffs, temperature, avoid, idx>>

\* values_mut handing out the Vec itself, the write being a push
ValuesMutPush(i, v) ==
    /\ pc = "idle"
    /\ values' = [k \in 0 .. Cardinality(DOMAIN values) |->
                    IF k \in DOMAIN values THEN values[k] ELSE v]
    /\ UNCHANGED <<pc, size, coeffs, biases, temperature, avoid, idx>>

\* machine.values_mut()[i] = v
ValuesMutWrite(i, v) ==
    /\ pc = "idle"
    /\ values' = [values EXCEPT ![i] = v]
    /\ UNCHANGED <<pc, size, coeffs, biases, temperature, avoid, idx>>

\* tick_all_sequential(t), drawing the samples us
TickAllSequential(t, us) ==
    /\ pc = "idle"
    /\ values' = SweepLoop(biases, coeffs, values, 0, t, us)
    /\ UNCHANGED <<pc, size, coeffs, biases, temperature, avoid, idx>>

(* tick_one_random(t, av) up to its first draw of idx.  Range::new(0, n)   *)
(* asserts 0 < n.                                                          *)
TickOneRandomEnter(t, av, first) ==
    /\ pc = "idle"
    /\ IF Units = {}
       THEN /\ pc' = "panic_range"
            /\ UNCHANGED <<temperature, avoid, idx>>
       ELSE /\ first \in Units
            /\ pc' = "sampling"
            /\ temperature' = t
            /\ avoid' = av
            /\ idx' = first
    /\ UNCHANGED <<size, coeffs, values, biases>>

\* while avoid.contains(&idx) { idx = limits.ind_sample(&mut rng); }
TickOneRandomResample(next) ==
    /\ pc = "sampling"
    /\ AvoidContains(avoid, idx)
    /\ idx' = next
    /\ UNCHANGED <<pc, size, coeffs, values, biases, temperature, avoid>>

\* tick_one_random updating every unit, not the one it drew
TickOneRandomApplyToAll(u) ==
    /\ pc = "sampling"
    /\ ~AvoidContains(avoid, idx)
    /\ values' = SweepLoop(biases, coeffs, values, 0, temperature,
                           [i \in Units |-> u])
    /\ pc' = "idle"
    /\ temperature' = 0
    /\ avoid' = <<>>
    /\ idx' = 0
    /\ UNCHANGED <<size, coeffs, biases>>

\* tick_one_random after its while loop, drawing the sample u
TickOneRandomApply(u) ==
    /\ pc = "sampling"
    /\ ~AvoidContains(avoid, idx)
    /\ values' = [values EXCEPT
                    ![idx] = NewValue(biases, coeffs, values, idx, temperature, u)]
    /\ pc' = "idle"
    /\ temperature' = 0
    /\ avoid' = <<>>
    /\ idx' = 0
    /\ UNCHANGED <<size, coeffs, biases>>

BiasVecs == UNION {[0 .. (n - 1) -> BiasVals] : n \in 0 .. (MaxUnits + 1)}

\* the pairs indexed: every index up to the first one out of range, and the
\* largest usize
IndexInputs == (0 .. size) \cup {UsizeMax}

\* the slices of every length up to len over the indices of S
Lists(S, len) == UNION {[1 .. k -> S] : k \in 0 .. len}

\* the set of the entries of a slice
SetOf(s) == {s[k] : k \in DOMAIN s}

\* exclusion lists: the units of a subset, each once, in increasing order
AvoidLists ==
    {s \in Lists(Units, Cardinality(Units)) :
        \A a, b \in DOMAIN s : a < b => s[a] < s[b]}

\* a step of a program that passes the temperatures of temps to the tick
\* functions and writes the values of vals through values_mut
Step(temps, vals) ==
    \/ \E i, j \in IndexInputs, v \in WeightVals : IndexMutWrite(i, j, v)
    \/ New
    \/ \E b \in BiasVecs : WithBiases(b)
    \/ \E i \in Units, v \in vals : ValuesMutWrite(i, v)
    \/ \E t \in temps, us \in [Units -> USamples] : TickAllSequential(t, us)
    \/ \E t \in temps, av \in AvoidLists, first \in 0 .. MaxUnits :
          TickOneRandomEnter(t, av, first)
    \/ \E next \in Units : TickOneRandomResample(next)
    \/ \E u \in USamples : TickOneRandomApply(u)

Next == Step(Temps, ValueVals)

Spec == Init /\ [][Next]_vars

(* The matrix alone, from its construction with any side a usize can hold  *)
(* to the first write into it.                                             *)
ZNext ==
    \/ \E n \in 0 .. UsizeMax : Zeros(n)
    \/ \E i, j \in IndexInputs, v \in WeightVals :
          coeffs = zeros(size) /\ IndexMutWrite(i, j, v)

ZerosSpec == ZInit /\ [][ZNext]_vars

\* the same program run cold: every tick at the temperature 0
ColdNext == Step({0}, ValueVals)

ColdSpec == Init /\ [][ColdNext]_vars

\* values outside {0, 1} among those written through values_mut
DepositVals == ValueVals \cup {2}

\* a program that builds its machine with new, deposits any value of
\* DepositVals and ticks at the temperature 1
DepositNext ==
    \/ \E i, j \in IndexInputs, v \in WeightVals : IndexMutWrite(i, j, v)
    \/ New
    \/ \E i \in Units, v \in DepositVals : ValuesMutWrite(i, v)
    \/ \E us \in [Units -> USamples] : TickAllSequential(1, us)
    \/ \E av \in AvoidLists, first \in 0 .. MaxUnits :
          TickOneRandomEnter(1, av, first)
    \/ \E next \in Units : TickOneRandomResample(next)
    \/ \E u \in USamples : TickOneRandomApply(u)

DepositSpec == Init /\ [][DepositNext]_vars

(* The rejection loop and the update after it are straight-line code of a  *)
(* running call: a call that can take its next step takes it.              *)
FairSpec ==
    /\ Spec
    /\ WF_vars(\E next \in Units : TickOneRandomResample(next))
    /\ WF_vars(\E u \in USamples : TickOneRandomApply(u))

\* exclusion lists as a caller may write them: entries repeated, in any
\* order, and entries that are no unit (the index Cardinality(Units))
AnyAvoidLists == Lists(0 .. Cardinality(Units), MaxUnits + 1)

\* a machine built by new and its tick_one_random, called with any list of
\* AnyAvoidLists
SamplerNext ==
    \/ New
    \/ \E t \in Temps, av \in AnyAvoidLists, first \in 0 .. MaxUnits :
          TickOneRandomEnter(t, av, first)
    \/ \E next \in Units : TickOneRandomResample(next)
    \/ \E u \in USamples : TickOneRandomApply(u)

(* A fair index sampler: while the loop keeps drawing, every unit is drawn *)
(* again and again (ind_sample over Range::new(0, n) is uniform); and the  *)
(* update after the loop is straight-line code.                            *)
FairSamplerSpec ==
    /\ Init
    /\ [][SamplerNext]_vars
    /\ \A k \in 0 .. (MaxUnits - 1) :
          SF_vars(k \in Units /\ TickOneRandomResample(k))
    /\ WF_vars(\E u \in USamples : TickOneRandomApply(u))

---------------------------------------------------------------------------
(* Properties *)

Sides == 0 .. (size - 1)

\* C1: for every i, j below the side of the matrix, matrix[(i, j)] and
\* matrix[(j, i)] read the same coefficient in every state, and a write of v
\* through (i, j) is read back as v through (j, i) and through (i, j).
C1_SymmetryByAliasing ==
    /\ [](\A i, j \in Sides : Index(coeffs, i, j) = Index(coeffs, j, i))
    /\ [][\A i, j \in Sides, v \in WeightVals :
             IndexMutWrite(i, j, v) =>
                /\ Index(coeffs', j, i) = v
                /\ Index(coeffs', i, j) = v]_vars

\* a matrix of side 3 or more in which a coefficient off the diagonal, whose
\* two orderings a row-major layout would keep apart, has been written
C1_Witness ==
    /\ pc = "matrix"
    /\ \E i, j \in Sides :
          /\ i + 1 < j
          /\ Index(coeffs, i, j) # 0
          /\ Index(coeffs, j, i) # 0

\* C2: no step of a call of tick_one_random changes values[i] for an i of the
\* exclusion list: the first draw and the redraws change no value at all,
\* and the update after the loop leaves every excluded unit as it was.
C2_ExclusionRespected ==
    [][/\ pc' = "sampling" => values' = values
       /\ pc = "sampling" =>
             \A i \in SetOf(avoid) \cap Units : values'[i] = values[i]]_vars

\* a call that has left its loop with a non-empty exclusion list, about to
\* change the unit it drew while an excluded unit holds a value that is not
\* the one of the construction
C2_Witness ==
    /\ pc = "sampling"
    /\ idx \notin SetOf(avoid)
    /\ \E i \in SetOf(avoid) \cap Units : values[i] = 0
    /\ \E u \in USamples :
          NewValue(biases, coeffs, values, idx, temperature, u) # values[idx]

\* C3: a call of tick_one_random whose exclusion list holds every unit leaves
\* its rejection loop (by failing or by returning).  Stated for machines of
\* two units or more, where every redraw can change idx; with a single unit
\* the loop redraws the same idx for ever.
C3_DegenerateExclusionTerminates ==
    (pc = "sampling" /\ Units \subseteq SetOf(avoid) /\ Cardinality(Units) > 1)
        ~> (pc # "sampling")

\* the values a sweep from old to new has reached when it processes unit i:
\* the new values of the units below i, the old values of unit i and above
MixedOf(old, new, i) == [j \in DOMAIN old |-> IF j < i THEN new[j] ELSE old[j]]

\* C4: on every machine, a sweep of tick_all_sequential with the samples us
\* gives every unit i the value the single-unit update gives it with the
\* sample us[i] on the values as they stand after the units 0 .. i-1 have
\* been updated (and before the units i .. n-1 have).
C4_SequentialSweep ==
    pc = "idle" =>
       \A t \in Temps, us \in [Units -> USamples] :
          LET new == SweepLoop(biases, coeffs, values, 0, t, us)
          IN  /\ DOMAIN new = Units
              /\ \A i \in Units :
                    new[i] = NewValue(biases, coeffs, MixedOf(values, new, i),
                                      i, t, us[i])

\* a machine on which some sweep and its double-buffered variant differ
C4_Witness ==
    /\ pc = "idle"
    /\ \E t \in Temps, us \in [Units -> USamples] :
          SweepLoop(biases, coeffs, values, 0, t, us)
             # [k \in Units |-> NewValue(biases, coeffs, values, k, t, us[k])]

\* 1 if u / UDen < 1 / (1 + exp(num / t)), else 0, for a temperature t > 0
SetIfBelowLogistic(num, t, u) ==
    IF u * (1000 + Exp(Fin((2 * num) \div t)).h) < UDen * 1000 THEN 1 ELSE 0

\* C5 (as claimed): the update of tick_one_random at a temperature > 0 sets
\* the unit to 1 iff u < 1 / (1 + exp(field / temperature)).
C5_AcceptanceAsClaimed ==
    [][\A u \in USamples :
          TickOneRandomApply(u) /\ temperature > 0 =>
             values'[idx] =
                SetIfBelowLogistic(LocalField(biases, coeffs, values, idx),
                                   temperature, u)]_vars

\* C5 (amended): an update at a temperature > 0 sets the unit to 1 iff
\* u < 1 / (1 + exp(-field / temperature)), and to 0 otherwise: the update
\* of tick_one_random on the unit it drew, and the update of every unit i in
\* a sweep of tick_all_sequential, whose field is taken on the values as the
\* sweep has left them when it reaches i.
C5_AcceptanceRule ==
    /\ [][\A u \in USamples :
             TickOneRandomApply(u) /\ temperature > 0 =>
                values'[idx] =
                   SetIfBelowLogistic(0 - LocalField(biases, coeffs, values, idx),
                                      temperature, u)]_vars
    /\ [](pc = "idle" =>
            \A t \in Temps \ {0}, us \in [Units -> USamples] :
               LET new == SweepLoop(biases, coeffs, values, 0, t, us)
               IN  \A i \in Units :
                      new[i] =
                         SetIfBelowLogistic(
                            0 - LocalField(biases, coeffs,
                                           MixedOf(values, new, i), i),
                            t, us[i]))

\* a call about to update a unit for which the rule as claimed and the rule
\* as amended decide differently
C5_Witness ==
    /\ pc = "sampling"
    /\ ~AvoidContains(avoid, idx)
    /\ temperature > 0
    /\ \E u \in USamples :
          LET f == LocalField(biases, coeffs, values, idx)
          IN  SetIfBelowLogistic(f, temperature, u)
                 # SetIfBelowLogistic(0 - f, temperature, u)

FieldDeltas == 0 .. 4

\* C6: when the update of tick_one_random at a temperature > 0 sets the unit
\* to 1, it also sets it to 1, with the same sample, on every machine whose
\* local field of that unit is higher by a d of FieldDeltas; when it sets the
\* unit to 0, it also does on every machine whose local field is lower by d.
C6_MonotoneInField ==
    [][\A u \in USamples :
          TickOneRandomApply(u) /\ temperature > 0 =>
             \A d \in FieldDeltas :
                /\ values'[idx] = 1 =>
                      NewValue([biases EXCEPT ![idx] = @ + d], coeffs, values,
                               idx, temperature, u) = 1
                /\ values'[idx] = 0 =>
                      NewValue([biases EXCEPT ![idx] = @ - d], coeffs, values,
                               idx, temperature, u) = 0]_vars

\* a call about to update a unit whose local field decides the outcome: some
\* sample sets it to 1 here and to 0 at a lower field
C6_Witness ==
    /\ pc = "sampling"
    /\ ~AvoidContains(avoid, idx)
    /\ temperature > 0
    /\ \E u \in USamples, d \in FieldDeltas :
          /\ NewValue(biases, coeffs, values, idx, temperature, u) = 1
          /\ NewValue([biases EXCEPT ![idx] = @ - d], coeffs, values,
                      idx, temperature, u) = 0

\* the sum of vals[j] * m[(i, j)] over the units j of S
RECURSIVE SumOver(_, _, _, _)
SumOver(S, m, vals, i) ==
    IF S = {}
    THEN 0
    ELSE LET j == CHOOSE k \in S : TRUE
         IN  vals[j] * Index(m, i, j) + SumOver(S \ {j}, m, vals, i)

\* C7: on every machine the local field of unit i is biases[i] plus the sum
\* of values[j] * weights(i, j) over the units j # i; and the value the
\* update of tick_one_random writes to the unit it drew is the value it
\* writes, for the same temperature and sample, on every machine that
\* differs in the value of that unit and in its diagonal weight only.
C7_SelfTermExcluded ==
    /\ [](pc \in {"idle", "sampling"} =>
            \A i \in Units :
               LocalField(biases, coeffs, values, i)
                  = biases[i] + SumOver(Units \ {i}, coeffs, values, i))
    /\ [][\A u \in USamples :
             TickOneRandomApply(u) =>
                \A v \in ValueVals, w \in WeightVals :
                   values'[idx] =
                      NewValue(biases, IndexSet(coeffs, idx, idx, w),
                               [values EXCEPT ![idx] = v], idx, temperature, u)]_vars

\* a call about to update a unit whose own value and diagonal weight are not
\* zero, and would change the outcome if the term j = i were summed
C7_Witness ==
    /\ pc = "sampling"
    /\ ~AvoidContains(avoid, idx)
    /\ values[idx] * Index(coeffs, idx, idx) # 0
    /\ \E u \in USamples :
          NewValue(biases, coeffs, values, idx, temperature, u)
             # (IF RandomLtRecip(u, Exp(NegDiv(
                       FieldLoopWithSelf(biases, coeffs, values, idx, 0,
                                         biases[idx]),
                       temperature)))
                THEN 1 ELSE 0)

\* C8: the step that ends a call of tick_one_random changes no entry of
\* values but that of the unit it drew, its other steps change no entry, and
\* no step taken on a machine (a sweep of tick_all_sequential included)
\* changes a bias, a weight or a size.
C8_UpdateFrame ==
    [][/\ (pc = "sampling" /\ pc' # "sampling") =>
             /\ DOMAIN values' = DOMAIN values
             /\ \A i \in Units \ {idx} : values'[i] = values[i]
       /\ pc' = "sampling" => values' = values
       /\ pc \in {"idle", "sampling"} =>
             /\ biases' = biases
             /\ coeffs' = coeffs
             /\ size' = size]_vars

\* a call on a machine of two units or more, with nothing excluded, about
\* to change the unit it drew
C8_Witness ==
    /\ pc = "sampling"
    /\ avoid = <<>>
    /\ Cardinality(Units) > 1
    /\ \A i \in Units : Index(coeffs, idx, i) # 0 /\ biases[i] # 0
    /\ \E u \in USamples :
          NewValue(biases, coeffs, values, idx, temperature, u) # values[idx]

\* the outcome of the update for a local field f
Decide(f, t, u) == IF RandomLtRecip(u, Exp(NegDiv(f, t))) THEN 1 ELSE 0

\* C9: the value tick_one_random writes to the unit idx it drew is decided
\* by the local field biases[idx] + the sum of values[j] * weights(idx, j)
\* over the excluded units j # idx + the same sum over the units j # idx
\* that are not excluded.
C9_ExcludedUnitsCounted ==
    [][\A u \in USamples :
          TickOneRandomApply(u) =>
             values'[idx] =
                Decide(biases[idx]
                         + SumOver((Units \cap SetOf(avoid)) \ {idx}, coeffs, values, idx)
                         + SumOver((Units \ SetOf(avoid)) \ {idx}, coeffs, values, idx),
                       temperature, u)]_vars

\* a call about to update a unit whose outcome the excluded units decide:
\* without their terms some sample would give the other value
C9_Witness ==
    /\ pc = "sampling"
    /\ ~AvoidContains(avoid, idx)
    /\ \E j \in SetOf(avoid) \cap Units : values[j] * Index(coeffs, idx, j) # 0
    /\ \E u \in USamples :
          NewValue(biases, coeffs, values, idx, temperature, u)
             # Decide(biases[idx]
                        + SumOver((Units \ SetOf(avoid)) \ {idx}, coeffs, values, idx),
                      temperature, u)

\* C10: with_biases(coeffs, b) fails its assertion whenever the length of b
\* is not the side of coeffs; otherwise it yields a machine whose biases are
\* b and whose values are as many as the side and all equal to 1.
C10_BiasLengthPrecondition ==
    [][\A b \in BiasVecs :
          WithBiases(b) =>
             IF Cardinality(DOMAIN b) # size
             THEN pc' = "panic_biases"
             ELSE /\ pc' = "idle"
                  /\ biases' = b
                  /\ DOMAIN values' = Sides
                  /\ \A i \in Sides : values'[i] = 1
                  /\ coeffs' = coeffs]_vars

\* a machine just built by with_biases: its biases are not those of new, and
\* its values are those of the construction
C10_Witness ==
    /\ pc = "idle"
    /\ size = MaxUnits
    /\ \A i \in Units : biases[i] # 0 /\ values[i] = 1

\* C11: new(coeffs) yields a machine with as many units as the side of
\* coeffs, every value 1 and every bias 0, around the very matrix passed in.
C11_NewDefaults ==
    [][New =>
          /\ pc' = "idle"
          /\ DOMAIN values' = Sides
          /\ DOMAIN biases' = Sides
          /\ \A i \in Sides : values'[i] = 1 /\ biases'[i] = 0
          /\ size' = size
          /\ coeffs' = coeffs]_vars

\* a machine just built by new around a matrix that had been written into
C11_Witness ==
    /\ pc = "idle"
    /\ size = MaxUnits
    /\ \A i \in Units : biases[i] = 0 /\ values[i] = 1
    /\ \E i, j \in Sides : Index(coeffs, i, j) # 0

\* C12: in every state of a machine, whatever ticks and writes through
\* values_mut came before, values and biases have exactly as many entries as
\* the side of the matrix, and no step of a machine changes that side.
C12_LengthInvariant ==
    /\ [](pc \in {"idle", "sampling"} =>
             /\ DOMAIN values = Sides
             /\ DOMAIN biases = Sides)
    /\ [][(pc = "idle" \/ pc = "sampling") =>
             /\ DOMAIN values' = DOMAIN values
             /\ DOMAIN biases' = DOMAIN biases
             /\ size' = size]_vars

\* a machine of MaxUnits units some of whose values are no longer those of
\* its construction
C12_Witness ==
    /\ pc = "idle"
    /\ size = MaxUnits
    /\ Cardinality(DOMAIN values) = MaxUnits
    /\ Cardinality(DOMAIN biases) = MaxUnits
    /\ \E i, j \in Units : values[i] = 0 /\ values[j] = 1

\* C13: an access at (i, j) fails, leaving every coefficient as it was,
\* whenever i or j is not below the side of the matrix, and it does not fail
\* when both are below the side.
C13_BoundsChecked ==
    [][\A i, j \in IndexInputs, v \in WeightVals :
          IndexMutWrite(i, j, v) =>
             IF i < size /\ j < size
             THEN pc' = "matrix"
             ELSE /\ pc' = "panic_index" \/ pc' = "panic_overflow"
                  /\ coeffs' = coeffs]_vars

\* the unordered pairs of indices below the side of the matrix
Pairs == {{i, j} : i, j \in Sides}

\* C14: in a matrix of side n the offsets computed for the pairs (i, j) with
\* i, j < n are exactly 0 .. n(n+1)/2 - 1, one offset for each unordered
\* pair; and a write through (i, j) leaves the coefficient of every other
\* unordered pair as it was.
C14_PackedBijection ==
    /\ [](pc = "matrix" =>
             /\ {Offset(i, j) : i, j \in Sides}
                   = 0 .. ((size * (size + 1)) \div 2 - 1)
             /\ Cardinality({Offset(i, j) : i, j \in Sides})
                   = Cardinality(Pairs))
    /\ [][\A i, j \in Sides, v \in WeightVals :
             IndexMutWrite(i, j, v) /\ pc' = "matrix" =>
                \A k, l \in Sides :
                   {k, l} # {i, j} /\ Offset(k, l) \in DOMAIN coeffs =>
                      Index(coeffs', k, l) = Index(coeffs, k, l)]_vars

\* n(n+1)/2 in exact arithmetic
Triangular(n) == (n * (n + 1)) \div 2

\* C15: zeros(n) yields a matrix whose side is n and which has exactly
\* n(n+1)/2 coefficients, every one 0 (for every n whose n(n+1)/2 a usize
\* holds); and no step on a matrix changes its side or the number of its
\* coefficients.
C15_PackedSizeAndLifecycle ==
    /\ [][\A n \in 0 .. UsizeMax :
             Zeros(n) /\ Triangular(n) <= UsizeMax =>
                /\ pc' = "matrix"
                /\ size' = n
                /\ DOMAIN coeffs' = 0 .. (Triangular(n) - 1)
                /\ \A k \in DOMAIN coeffs' : coeffs'[k] = 0]_vars
    /\ [][pc = "matrix" =>
             /\ size' = size
             /\ DOMAIN coeffs' = DOMAIN coeffs]_vars

\* C16: an update at the temperature 0 sets a unit whose local field is
\* positive to 1 and a unit whose local field is negative to 0, whatever the
\* sample, and the probability the sample is compared with is never NaN.
C16_ZeroTemperatureSaturates ==
    [][\A u \in USamples :
          TickOneRandomApply(u) /\ temperature = 0 =>
             LET f == LocalField(biases, coeffs, values, idx)
             IN  /\ f > 0 => values'[idx] = 1
                 /\ f < 0 => values'[idx] = 0
                 /\ Exp(NegDiv(f, temperature)).kind # "nan"]_vars

\* C18: for every n whose n(n+1)/2 a usize holds, zeros(n) does not fail and
\* the matrix it returns has exactly n(n+1)/2 coefficients.
C18_FailsOnlyOnPackedOverflow ==
    [][\A n \in 0 .. UsizeMax :
          Zeros(n) /\ Triangular(n) <= UsizeMax =>
             /\ pc' # "panic_overflow"
             /\ Cardinality(DOMAIN coeffs') = Triangular(n)]_vars

\* C19: whatever values were written through values_mut, the entry an update
\* of tick_one_random writes is 0 or 1; after a sweep of tick_all_sequential
\* every entry is 0 or 1; and an entry that is neither 0 nor 1 after a step
\* was either written through values_mut by that step or held that value
\* before it.
C19_BinaryAfterUpdate ==
    /\ [][\A u \in USamples :
             TickOneRandomApply(u) => values'[idx] \in {0, 1}]_vars
    /\ [](pc = "idle" =>
             \A us \in [Units -> USamples] :
                \A i \in Units :
                   SweepLoop(biases, coeffs, values, 0, 1, us)[i] \in {0, 1})
    /\ [][\A i \in DOMAIN values' :
             values'[i] \notin {0, 1} =>
                \/ i \in DOMAIN values /\ values'[i] = values[i]
                \/ ValuesMutWrite(i, values'[i])]_vars

\* a machine holding a deposited 2 that weighs on the local field of another
\* unit, which an update has set to 0
C19_Witness ==
    /\ pc = "idle"
    /\ size = MaxUnits
    /\ \E i, j \in Units :
          /\ values[i] = 2
          /\ values[j] = 0
          /\ values[i] * Index(coeffs, j, i) # 0

\* the units named by the exclusion list: its entries below n, each once
Excluded == {k \in Units : \E e \in DOMAIN avoid : avoid[e] = k}

\* C20: under a fair index sampler a call of tick_one_random whose exclusion
\* list leaves out some unit leaves its loop and returns; the unit it
\* updates is a unit the list does not name; and what the loop does depends
\* on Excluded alone: it draws again exactly while idx is in Excluded,
\* whatever entries beyond the units or repeated entries the list has.
C20_RejectionSamplingTerminates ==
    /\ (pc = "sampling" /\ Excluded # Units) ~> (pc = "idle")
    /\ [][\A u \in USamples :
             TickOneRandomApply(u) =>
                /\ idx \in Units \ Excluded
                /\ \A i \in Units \ {idx} : values'[i] = values[i]]_vars
    /\ [][pc = "sampling" =>
             IF idx \in Excluded
             THEN pc' = "sampling" /\ idx' \in Units /\ values' = values
             ELSE pc' = "idle"]_vars

\* inside the loop of a call whose list names the unit drawn twice and has
\* an entry that is no unit, while another unit is left to draw
C20_Witness ==
    /\ pc = "sampling"
    /\ size = MaxUnits
    /\ Excluded # Units
    /\ idx \in Excluded
    /\ \E a, b \in DOMAIN avoid : a # b /\ avoid[a] = idx /\ avoid[b] = idx
    /\ \E e \in DOMAIN avoid : avoid[e] >= size

====
